---- MODULE Spec2Model ----
(***************************************************************************)
(* actix-cbor: the Cbor<T> extractor (FromRequest) and the response paths  *)
(* (Responder for Cbor<T>, HttpResponseBuilderExt).                        *)
(*                                                                         *)
(* lib.rs and http_response_builder_ext.rs are modelled from their code.   *)
(* CborBody (body.rs), CborConfig (config.rs) and CborPayloadError         *)
(* (error.rs) are modelled from the specification and from the way lib.rs  *)
(* and tests.rs use them.                                                  *)
(*                                                                         *)
(* A byte string is kept run-length encoded (a sequence of runs            *)
(* [b |-> byte, n |-> count], adjacent runs of different bytes), so that a *)
(* body larger than the default limit of 256KiB is a value TLC can hold.   *)
(***************************************************************************)
EXTENDS Integers, Sequences, FiniteSets, TLC

\* ------------------------------------------------------------ bounds
\* the source delivers at most MaxChunks chunks before it ends or fails
MaxChunks == 3

\* ------------------------------------------------------------ constants
None == "None"
CBOR_MIME == "application/cbor"
DEFAULT_LIMIT == 262144

\* ------------------------------------------------------------ byte strings
Bytes == {0, 1}

Run(b, n) == <<[b |-> b, n |-> n]>>

RECURSIVE BLen(_)
BLen(s) == IF s = <<>> THEN 0 ELSE s[1].n + BLen(Tail(s))

\* concatenation: the last run of s and the first of t merge when equal bytes
BCat(s, t) ==
    IF s = <<>> THEN t
    ELSE IF t = <<>> THEN s
    ELSE IF s[Len(s)].b = t[1].b
         THEN SubSeq(s, 1, Len(s) - 1)
              \o Run(t[1].b, s[Len(s)].n + t[1].n)
              \o Tail(t)
         ELSE s \o t

RECURSIVE FromSeq(_)
FromSeq(q) == IF q = <<>> THEN <<>> ELSE BCat(Run(q[1], 1), FromSeq(Tail(q)))

SeqsOfLen(n) == [1..n -> Bytes]

\* the chunks the source may deliver: every small byte string, and one chunk
\* that alone fills the default limit
ChunkLens == {1, 2}
SmallChunks == {FromSeq(q) : q \in UNION {SeqsOfLen(n) : n \in ChunkLens}}
BigChunk == Run(0, DEFAULT_LIMIT)
Chunks == SmallChunks \cup {BigChunk}

\* the faults the chunk source may report (actix PayloadError)
Faults == {"Incomplete", "EncodingCorrupted"}

\* ------------------------------------------------------------ Result<T, E>
NoErr == [kind |-> None, fault |-> None]
Ok(v) == [ok |-> TRUE, val |-> v, err |-> NoErr]
Err(e) == [ok |-> FALSE, val |-> None, err |-> e]

\* ------------------------------------------------------------ the codec
\* The typed values of the model.  "v1" and "v2" serialize; "nan" stands for
\* a value whose Serialize implementation fails.
Values == {"v1", "v2"}
AllValues == Values \cup {"nan"}

\* serde_cbor::to_vec
to_vec(v) ==
    CASE v = "v1" -> Ok(FromSeq(<<0, 1>>))
      [] v = "v2" -> Ok(FromSeq(<<1, 1, 0>>))
      [] OTHER    -> Err([kind |-> "Serialize", fault |-> "cbor"])

\* serde_cbor::from_slice
from_slice(b) ==
    IF b = FromSeq(<<0, 1>>) THEN Ok("v1")
    ELSE IF b = FromSeq(<<1, 1, 0>>) THEN Ok("v2")
    ELSE Err([kind |-> "Deserialize", fault |-> "cbor"])

\* ------------------------------------------------------------ CborPayloadError
ContentType == [kind |-> "ContentType", fault |-> None]
Overflow == [kind |-> "Overflow", fault |-> None]
Payload(f) == [kind |-> "Payload", fault |-> f]

ErrorKinds == {"ContentType", "Overflow", "Payload", "Deserialize"}

\* Display for CborPayloadError: a fixed text per kind
DisplayText(kind) ==
    CASE kind = "Overflow"    -> "Cbor payload size is bigger than allowed"
      [] kind = "ContentType" -> "Content type error"
      [] kind = "Payload"     -> "Error that occur during reading payload"
      [] kind = "Deserialize" -> "Cbor deserialize error"
      [] OTHER                -> "Cbor serialize error"

\* ResponseError for CborPayloadError: the status of the default response
StatusOf(kind) == 400

\* actix_web::Error as the caller sees it: the status and reason of the
\* response it renders, the response body, and the error it was made from
AppError(status, reason, body, cause) ==
    [status |-> status, reason |-> reason, body |-> body, cause |-> cause]

\* impl From<CborPayloadError> for actix_web::Error (e.into())
IntoError(e) == AppError(StatusOf(e.kind), DisplayText(e.kind), <<>>, e)

\* ------------------------------------------------------------ CborConfig
DEFAULT_CONFIG ==
    [limit |-> DEFAULT_LIMIT, content_type |-> None, err_handler |-> None]

CborConfig_limit(cfg, n) == [cfg EXCEPT !.limit = n]
content_type_raw(cfg, p) == [cfg EXCEPT !.content_type = p]
error_handler(cfg, h) == [cfg EXCEPT !.err_handler = h]

\* the predicates and handlers the tests configure
Predicates == {"is_text_plain"}
Handlers == {"bad_request_body", "as_content_type"}
LimitOverrides == {2, 3}

\* a predicate applied to a media type
ApplyPredicate(p, mime) ==
    CASE p = "is_text_plain" -> mime = "text/plain"
      [] OTHER -> FALSE

\* a handler applied to (error, request)
ApplyHandler(h, e, r) ==
    CASE h = "bad_request_body" ->
            AppError(400, DisplayText(e.kind), to_vec("v1").val, e)
      [] OTHER -> IntoError(ContentType)

WithLimit == {DEFAULT_CONFIG}
             \cup {CborConfig_limit(DEFAULT_CONFIG, n) : n \in LimitOverrides}
WithPredicate == WithLimit
                 \cup {content_type_raw(c, p) : c \in WithLimit, p \in Predicates}
Configs == WithPredicate
           \cup {error_handler(c, h) : c \in WithPredicate, h \in Handlers}

\* what the route carries: nothing, a CborConfig, or a web::Data<CborConfig>
AppData == {[kind |-> "none", cfg |-> DEFAULT_CONFIG]}
           \cup [kind : {"CborConfig", "Data"}, cfg : Configs]

\* CborConfig::from_req
from_req(data) == IF data.kind = "none" THEN DEFAULT_CONFIG ELSE data.cfg

\* ------------------------------------------------------------ the request
NoLength == -1
MimeTypes == {CBOR_MIME, "text/plain", "text/html"}
ContentLengths == {NoLength, 2, 3, 4, DEFAULT_LIMIT + 1}
Requests == [content_type : MimeTypes \cup {None}, content_length : ContentLengths]

\* ------------------------------------------------------------ CborBody
\* The future CborBody<T>: the limit, the declared length, the error found
\* at construction, the accumulated buffer with its running total, and the
\* state of the chunk source ("none": never taken, "open", "dropped").
NoBody ==
    [limit |-> DEFAULT_LIMIT, length |-> NoLength, err |-> NoErr,
     buf |-> <<>>, bytes_read |-> 0, stream |-> "none"]

\* the resolved predicate: the configured one, else exact match on the
\* canonical media type
Accepts(ctype, mime) ==
    IF ctype = None THEN mime = CBOR_MIME ELSE ApplyPredicate(ctype, mime)

\* CborBody::new(req, payload, ctype): the content-type gate; the source is
\* taken only when the gate passes
CborBody_new(r, ctype) ==
    IF r.content_type # None /\ Accepts(ctype, r.content_type)
    THEN [NoBody EXCEPT !.length = r.content_length, !.stream = "open"]
    ELSE [NoBody EXCEPT !.err = ContentType]

\* CborBody::limit(self, limit)
CborBody_limit(b, n) == [b EXCEPT !.limit = n]

\* the accumulator and its partial buffer are destroyed when the future
\* completes or is dropped
Dropped(b) ==
    [b EXCEPT !.buf = <<>>, !.bytes_read = 0,
              !.stream = IF b.stream = "open" THEN "dropped" ELSE b.stream]

\* ------------------------------------------------------------ lib.rs
\* from_request, lines 145-147: what is taken from the resolved config
FromRequest_limit_minus1(config) == config.limit - 1
FromRequest_limit_plus1(config) == config.limit + 1
FromRequest_limit_unset(config) == DEFAULT_LIMIT
FromRequest_limit(config) == config.limit

FromRequest_ctype_none(config) == None
FromRequest_ctype(config) == config.content_type

FromRequest_err_handler(config) == config.err_handler

\* from_request, lines 149-150: CborBody::new(req, payload, ctype).limit(limit)
FromRequest_body_nolimit(r, ctype, limit) == CborBody_new(r, ctype)
FromRequest_body_noctype(r, ctype, limit) ==
    CborBody_limit(CborBody_new(r, None), limit)
FromRequest_body(r, ctype, limit) ==
    CborBody_limit(CborBody_new(r, ctype), limit)

\* from_request, lines 151-166: the closure mapped over CborBody's result.
\* Gives the extraction's outcome and the handler invocations it made.
MapResult_no_handler(err_handler, req2, res) ==
    IF ~res.ok
    THEN [out |-> Err(IntoError(res.err)), calls |-> <<>>]
    ELSE [out |-> Ok(res.val), calls |-> <<>>]
MapResult_default_value(err_handler, req2, res) ==
    IF ~res.ok
    THEN IF err_handler # None
         THEN [out |-> Err(ApplyHandler(err_handler, res.err, req2)),
               calls |-> <<[handler |-> err_handler, err |-> res.err,
                            req |-> req2]>>]
         ELSE [out |-> Err(IntoError(res.err)), calls |-> <<>>]
    ELSE [out |-> Ok("v1"), calls |-> <<>>]
MapResult_lossy(err_handler, req2, res) ==
    LET e == [res.err EXCEPT !.fault = None]
    IN  IF ~res.ok
        THEN IF err_handler # None
             THEN [out |-> Err(ApplyHandler(err_handler, e, req2)),
                   calls |-> <<[handler |-> err_handler, err |-> e,
                                req |-> req2]>>]
             ELSE [out |-> Err(IntoError(e)), calls |-> <<>>]
        ELSE [out |-> Ok(res.val), calls |-> <<>>]
MapResult_internal(err_handler, req2, res) ==
    IF ~res.ok
    THEN IF err_handler # None
         THEN [out |-> Err(ApplyHandler(err_handler, res.err, req2)),
               calls |-> <<[handler |-> err_handler, err |-> res.err, req |-> req2]>>]
         ELSE [out |-> Err(AppError(500, None, <<>>, res.err)), calls |-> <<>>]
    ELSE [out |-> Ok(res.val), calls |-> <<>>]
MapResult(err_handler, req2, res) ==
    IF ~res.ok
    THEN IF err_handler # None
         THEN [out |-> Err(ApplyHandler(err_handler, res.err, req2)),
               calls |-> <<[handler |-> err_handler, err |-> res.err, req |-> req2]>>]
         ELSE [out |-> Err(IntoError(res.err)), calls |-> <<>>]
    ELSE [out |-> Ok(res.val), calls |-> <<>>]

\* ------------------------------------------------------------ responses
NoResponse == [status |-> 0, reason |-> None, content_type |-> None, body |-> <<>>]

\* HttpResponse::InternalServerError().finish()
InternalServerError ==
    [status |-> 500, reason |-> None, content_type |-> None, body |-> <<>>]

respond_to_status(v) ==
    LET r == to_vec(v)
    IN  IF r.ok
        THEN [status |-> 200, reason |-> None, content_type |-> CBOR_MIME,
              body |-> r.val]
        ELSE [InternalServerError EXCEPT !.status = 400]
\* Responder::respond_to for Cbor<T>, lib.rs 120-130
respond_to(v) ==
    LET r == to_vec(v)
    IN  IF r.ok
        THEN [status |-> 200, reason |-> None, content_type |-> CBOR_MIME,
              body |-> r.val]
        ELSE InternalServerError

cbor2_keeps_header(builder, v) ==
    LET r == to_vec(v)
    IN  IF r.ok
        THEN [status |-> builder.status, reason |-> None,
              content_type |-> IF builder.content_type = None
                               THEN CBOR_MIME ELSE builder.content_type,
              body |-> r.val]
        ELSE [InternalServerError EXCEPT !.reason = "unable to serialize cbor."]
\* HttpResponseBuilderExt::cbor2, http_response_builder_ext.rs 23-36: the
\* builder keeps the status it was created with
cbor2(builder, v) ==
    LET r == to_vec(v)
    IN  IF r.ok
        THEN [status |-> builder.status, reason |-> None,
              content_type |-> CBOR_MIME, body |-> r.val]
        ELSE [InternalServerError EXCEPT !.reason = "unable to serialize cbor."]

\* HttpResponseBuilderExt::cbor, http_response_builder_ext.rs 19-21
cbor(builder, v) == cbor2(builder, v)

BuilderStatuses == {200, 201, 400}
Builders == [status : BuilderStatuses, content_type : {None, "text/plain"}]
NoBuilder == [status |-> 0, content_type |-> None]

\* ------------------------------------------------------------ state
VARIABLES
    app_data,       \* the configuration attached to the route
    req,            \* the request's headers
    pc,             \* "request", "polling", "waiting", "done", "cancelled"
    body,           \* the CborBody future
    map_fn,         \* what the mapped closure captured: err_handler, req2
    delivered,      \* the chunks the source has delivered, in order
    requested,      \* how many times the next chunk was requested
    decode_in,      \* the buffers handed to the decoder
    result,         \* CborBody's result
    outcome,        \* from_request's result
    handler_calls,  \* the invocations of the error handler
    stream_end,     \* how the source ended: None, "eof", or the fault reported
    peer,           \* a second extraction running on the same route
    rpc,            \* response path: "idle", "sent"
    entry,          \* the response entry point used, its builder and value
    resp            \* the response produced

vars == <<app_data, req, pc, body, map_fn, delivered, requested, decode_in,
          result, outcome, handler_calls, stream_end, peer, rpc, entry,
          resp>>

extract_vars == <<pc, body, map_fn, delivered, requested, decode_in, result,
                  outcome, handler_calls, stream_end>>
respond_vars == <<rpc, entry, resp>>

NoResult == [ok |-> FALSE, val |-> None, err |-> NoErr]
NoOutcome == [ok |-> FALSE, val |-> None,
              err |-> AppError(0, None, <<>>, NoErr)]
NoMapFn == [err_handler |-> None, req2 |-> [content_type |-> None,
                                            content_length |-> NoLength]]
NoEntry == [name |-> None, builder |-> NoBuilder, value |-> None]

\* an extraction as one record: what the variables req .. stream_end hold
Task(r) ==
    [req |-> r, pc |-> "request", body |-> NoBody, map_fn |-> NoMapFn,
     delivered |-> <<>>, requested |-> 0, decode_in |-> <<>>,
     result |-> NoResult, outcome |-> NoOutcome, handler_calls |-> <<>>,
     stream_end |-> None]
NoPeer == [Task(NoMapFn.req2) EXCEPT !.pc = "absent"]

RECURSIVE TotalLen(_)
TotalLen(cs) == IF cs = <<>> THEN 0 ELSE BLen(cs[1]) + TotalLen(Tail(cs))

Init ==
    /\ app_data \in AppData
    /\ req \in Requests
    /\ pc = "request"
    /\ body = NoBody
    /\ map_fn = NoMapFn
    /\ delivered = <<>>
    /\ requested = 0
    /\ decode_in = <<>>
    /\ result = NoResult
    /\ outcome = NoOutcome
    /\ handler_calls = <<>>
    /\ stream_end = None
    /\ peer = NoPeer
    /\ rpc = "idle"
    /\ entry = NoEntry
    /\ resp = NoResponse

\* ------------------------------------------------------------ extraction
\* Cbor::from_request, lib.rs 141-168: resolve the config, build the body
\* future with the config's predicate and limit, map the closure over it
FromRequest ==
    /\ pc = "request"
    /\ LET config == from_req(app_data)
           limit == FromRequest_limit(config)
           ctype == FromRequest_ctype(config)
           err_handler == FromRequest_err_handler(config)
       IN  /\ body' = FromRequest_body(req, ctype, limit)
           /\ map_fn' = [err_handler |-> err_handler, req2 |-> req]
    /\ pc' = "polling"
    /\ UNCHANGED <<app_data, req, delivered, requested, decode_in, result,
                   outcome, handler_calls, stream_end, respond_vars, peer>>

Complete_shared(res) ==
    LET m == MapResult(map_fn.err_handler, peer.map_fn.req2, res)
    IN  /\ result' = res
        /\ outcome' = m.out
        /\ handler_calls' = handler_calls \o m.calls
        /\ body' = Dropped(body)
        /\ pc' = "done"
\* the future is ready with res: the closure maps it, the body is consumed
Complete(res) ==
    LET m == MapResult(map_fn.err_handler, map_fn.req2, res)
    IN  /\ result' = res
        /\ outcome' = m.out
        /\ handler_calls' = handler_calls \o m.calls
        /\ body' = Dropped(body)
        /\ pc' = "done"

\* first poll, the error stored at construction is returned
PollRejected ==
    /\ pc = "polling"
    /\ body.err # NoErr
    /\ Complete(Err(body.err))
    /\ UNCHANGED <<app_data, req, map_fn, delivered, requested, decode_in,
                   stream_end, respond_vars, peer>>

\* first poll, the declared length is over the limit
PollTooLong ==
    /\ pc = "polling"
    /\ body.err = NoErr
    /\ body.length # NoLength /\ body.length > body.limit
    /\ Complete(Err(Overflow))
    /\ UNCHANGED <<app_data, req, map_fn, delivered, requested, decode_in,
                   stream_end, respond_vars, peer>>

\* first poll, the read starts: the first chunk is requested
PollStart ==
    /\ pc = "polling"
    /\ body.err = NoErr
    /\ ~(body.length # NoLength /\ body.length > body.limit)
    /\ requested' = requested + 1
    /\ pc' = "waiting"
    /\ UNCHANGED <<app_data, req, body, map_fn, delivered, decode_in, result,
                   outcome, handler_calls, stream_end, respond_vars, peer>>

\* a chunk arrives, is appended and counted, and the total is over the limit
ChunkOverflow(c) ==
    /\ pc = "waiting"
    /\ Len(delivered) < MaxChunks
    /\ body.bytes_read + BLen(c) > body.limit
    /\ delivered' = Append(delivered, c)
    /\ Complete(Err(Overflow))
    /\ UNCHANGED <<app_data, req, map_fn, requested, decode_in, stream_end, respond_vars, peer>>

\* a chunk arrives, is appended and counted, and the next one is requested
ChunkAppended(c) ==
    /\ pc = "waiting"
    /\ Len(delivered) < MaxChunks
    /\ ~(body.bytes_read + BLen(c) > body.limit)
    /\ delivered' = Append(delivered, c)
    /\ body' = [body EXCEPT !.buf = BCat(body.buf, c),
                            !.bytes_read = body.bytes_read + BLen(c)]
    /\ requested' = requested + 1
    /\ UNCHANGED <<app_data, req, pc, map_fn, decode_in, result, outcome,
                   handler_calls, stream_end, respond_vars, peer>>

\* the source ends: the completed buffer is decoded
EndOfStream ==
    /\ pc = "waiting"
    /\ decode_in' = Append(decode_in, body.buf)
    /\ stream_end' = "eof"
    /\ Complete(from_slice(body.buf))
    /\ UNCHANGED <<app_data, req, map_fn, delivered, requested, respond_vars, peer>>

\* the source reports a fault
StreamFault(f) ==
    /\ pc = "waiting"
    /\ stream_end' = f
    /\ Complete(Err(Payload(f)))
    /\ UNCHANGED <<app_data, req, map_fn, delivered, requested, decode_in,
                   respond_vars, peer>>

Cancel_reports ==
    /\ pc = "waiting"
    /\ pc' = "cancelled"
    /\ body' = Dropped(body)
    /\ LET m == MapResult(map_fn.err_handler, map_fn.req2,
                          Err(Payload("Incomplete")))
       IN  /\ result' = Err(Payload("Incomplete"))
           /\ outcome' = m.out
           /\ handler_calls' = handler_calls \o m.calls
    /\ UNCHANGED <<app_data, req, map_fn, delivered, requested, decode_in,
                   stream_end, respond_vars, peer>>
\* the request is dropped while the future waits for a chunk
Cancel ==
    /\ pc = "waiting"
    /\ pc' = "cancelled"
    /\ body' = Dropped(body)
    /\ UNCHANGED <<app_data, req, map_fn, delivered, requested, decode_in,
                   result, outcome, handler_calls, stream_end, respond_vars, peer>>

Next ==
    \/ FromRequest
    \/ PollRejected
    \/ PollTooLong
    \/ PollStart
    \/ \E c \in Chunks : ChunkOverflow(c)
    \/ \E c \in Chunks : ChunkAppended(c)
    \/ EndOfStream
    \/ \E f \in Faults : StreamFault(f)
    \/ Cancel

Spec == Init /\ [][Next]_vars

\* ------------------------------------------------------------ response path
RespondTo(v) ==
    /\ rpc = "idle"
    /\ entry' = [name |-> "respond_to", builder |-> NoBuilder, value |-> v]
    /\ resp' = respond_to(v)
    /\ rpc' = "sent"
    /\ UNCHANGED <<app_data, req, extract_vars, peer>>

BuilderCbor(b, v) ==
    /\ rpc = "idle"
    /\ entry' = [name |-> "cbor", builder |-> b, value |-> v]
    /\ resp' = cbor(b, v)
    /\ rpc' = "sent"
    /\ UNCHANGED <<app_data, req, extract_vars, peer>>

BuilderCbor2(b, v) ==
    /\ rpc = "idle"
    /\ entry' = [name |-> "cbor2", builder |-> b, value |-> v]
    /\ resp' = cbor2(b, v)
    /\ rpc' = "sent"
    /\ UNCHANGED <<app_data, req, extract_vars, peer>>

NextRespond ==
    \/ \E v \in AllValues : RespondTo(v)
    \/ \E b \in Builders, v \in AllValues : BuilderCbor(b, v)
    \/ \E b \in Builders, v \in AllValues : BuilderCbor2(b, v)

SpecRespond == Init /\ [][NextRespond]_vars

\* ------------------------------------------------------------ two requests
\* The steps of from_request and of its future on an extraction held as a
\* record: the same operations as the actions above.

\* the future of t is ready with res: lib.rs 151-166 maps it
TaskReady(t, res) ==
    LET m == MapResult(t.map_fn.err_handler, t.map_fn.req2, res)
    IN  [t EXCEPT !.result = res, !.outcome = m.out,
                  !.handler_calls = t.handler_calls \o m.calls,
                  !.body = Dropped(t.body), !.pc = "done"]

\* from_request on the request of t, lib.rs 141-168
TaskFromRequest(t, data) ==
    LET config == from_req(data)
        limit == FromRequest_limit(config)
        ctype == FromRequest_ctype(config)
        err_handler == FromRequest_err_handler(config)
    IN  [t EXCEPT !.body = FromRequest_body(t.req, ctype, limit),
                  !.map_fn = [err_handler |-> err_handler, req2 |-> t.req],
                  !.pc = "polling"]

\* the first poll of the future of t
TaskFirstPoll(t) ==
    IF t.body.err # NoErr THEN TaskReady(t, Err(t.body.err))
    ELSE IF t.body.length # NoLength /\ t.body.length > t.body.limit
    THEN TaskReady(t, Err(Overflow))
    ELSE [t EXCEPT !.requested = @ + 1, !.pc = "waiting"]

\* chunk c arrives for t
TaskChunk(t, c) ==
    LET d == [t EXCEPT !.delivered = Append(@, c)]
    IN  IF t.body.bytes_read + BLen(c) > t.body.limit
        THEN TaskReady(d, Err(Overflow))
        ELSE [d EXCEPT !.body.buf = BCat(@, c),
                       !.body.bytes_read = @ + BLen(c),
                       !.requested = @ + 1]

\* the source of t ends, fails with f, or t is dropped
TaskEnd(t) ==
    TaskReady([t EXCEPT !.decode_in = Append(@, t.body.buf),
                        !.stream_end = "eof"],
              from_slice(t.body.buf))
TaskFault(t, f) == TaskReady([t EXCEPT !.stream_end = f], Err(Payload(f)))
TaskCancel(t) == [t EXCEPT !.pc = "cancelled", !.body = Dropped(@)]

\* every step the extraction t can take next
TaskSteps(t, data) ==
    CASE t.pc = "request" -> {TaskFromRequest(t, data)}
      [] t.pc = "polling" -> {TaskFirstPoll(t)}
      [] t.pc = "waiting" ->
            {TaskChunk(t, c) : c \in {x \in Chunks : Len(t.delivered) < MaxChunks}}
            \cup {TaskEnd(t), TaskCancel(t)}
            \cup {TaskFault(t, f) : f \in Faults}
      [] OTHER -> {}

\* the second extraction takes a step; the first is not touched
PeerStep ==
    /\ \E t \in TaskSteps(peer, app_data) : peer' = t
    /\ UNCHANGED <<app_data, req, extract_vars, respond_vars>>

\* the routes of the two-request runs: an attached config with limit 2
SharedAppData == {d \in AppData : d.kind # "none" /\ d.cfg.limit = 2}

InitShared ==
    /\ app_data \in SharedAppData
    /\ req \in Requests
    /\ peer \in {Task(r) : r \in Requests}
    /\ pc = "request"
    /\ body = NoBody
    /\ map_fn = NoMapFn
    /\ delivered = <<>>
    /\ requested = 0
    /\ decode_in = <<>>
    /\ result = NoResult
    /\ outcome = NoOutcome
    /\ handler_calls = <<>>
    /\ stream_end = None
    /\ rpc = "idle"
    /\ entry = NoEntry
    /\ resp = NoResponse

NextShared ==
    \/ Next
    \/ PeerStep

SpecShared == InitShared /\ [][NextShared]_vars

\* ------------------------------------------------------------ properties
\* what the claims speak of, computed from the request and the route alone
Resolved == from_req(app_data)
Limit == IF app_data.kind = "none" THEN 262144 ELSE app_data.cfg.limit
Declared == req.content_length
HasDeclared == req.content_length # NoLength
Received == TotalLen(delivered)
GateAccepts ==
    /\ req.content_type # None
    /\ IF Resolved.content_type = None
       THEN req.content_type = "application/cbor"
       ELSE ApplyPredicate(Resolved.content_type, req.content_type)
Failed(kind) == pc = "done" /\ ~result.ok /\ result.err.kind = kind
Started == pc # "request"

\* C1: once the chunks delivered total more than the configured limit, the
\* extraction has failed with Overflow in that very step: the chunks before
\* the last one were within the limit, no chunk was requested after it, and
\* no state waits (or succeeds) with more than the limit received.  The
\* declared length plays no part.
C1_OverflowAtFirstExcess ==
    Received > Limit =>
        /\ Failed("Overflow")
        /\ result = Err(Overflow)
        /\ requested = Len(delivered)
        /\ TotalLen(SubSeq(delivered, 1, Len(delivered) - 1)) <= Limit

\* C1 witness: a request that declared less than it sent (and within the
\* limit) overflowed on its second chunk
C1_Witness ==
    /\ Failed("Overflow")
    /\ Received > Limit
    /\ HasDeclared /\ Declared <= Limit /\ Declared < Received
    /\ Len(delivered) = 2

\* C2 as stated: every request whose declared length is over the limit
\* fails with Overflow before any chunk is requested
C2_Original ==
    (HasDeclared /\ Declared > Limit /\ pc = "done") =>
        (result = Err(Overflow) /\ requested = 0)

\* C2: a request whose declared length is over the limit never has a chunk
\* requested or delivered and never waits; when it is done it has failed,
\* with Overflow if its media type passed the gate and with ContentType if
\* it did not
C2_DeclaredOverLimit ==
    (HasDeclared /\ Declared > Limit) =>
        /\ requested = 0
        /\ delivered = <<>>
        /\ pc \in {"request", "polling", "done"}
        /\ pc = "done" =>
              result = Err(IF GateAccepts THEN Overflow ELSE ContentType)

\* C2 witness: an accepted media type, a declared length over the limit
C2_Witness ==
    /\ Failed("Overflow")
    /\ GateAccepts
    /\ HasDeclared /\ Declared > Limit
    /\ requested = 0

\* C3: a request whose media type is absent or rejected by the resolved
\* predicate never has its source taken, never has a chunk requested or
\* delivered, and when it is done it has failed with ContentType
C3_ContentTypeReadsNothing ==
    ~GateAccepts =>
        /\ requested = 0
        /\ delivered = <<>>
        /\ decode_in = <<>>
        /\ body.stream = "none"
        /\ pc \in {"request", "polling", "done"}
        /\ pc = "done" => result = Err(ContentType)

\* C3 witness: the canonical type rejected by a configured predicate
C3_Witness ==
    /\ Failed("ContentType")
    /\ req.content_type = CBOR_MIME
    /\ Resolved.content_type # None
    /\ requested = 0

\* C4: whenever the accumulator has yielded (it waits for a chunk, or the
\* extraction is done or dropped) its running total and its buffer are within
\* the configured limit; while it waits the total counts every delivered
\* chunk and exactly one request is outstanding; and a buffer handed to the
\* decoder is within the limit
C4_BytesReadWithinLimit ==
    pc \in {"waiting", "done", "cancelled"} =>
        /\ body.bytes_read <= Limit
        /\ BLen(body.buf) = body.bytes_read
        /\ pc = "waiting" =>
              /\ body.bytes_read = Received
              /\ requested = Len(delivered) + 1
        /\ \A i \in DOMAIN decode_in : BLen(decode_in[i]) <= Limit

\* C4 witness: waiting with the running total exactly at the limit
C4_Witness ==
    /\ pc = "waiting"
    /\ body.bytes_read = Limit
    /\ Len(delivered) = 2

\* C5: with an error handler configured, a failed extraction has invoked it
\* exactly once, with the error and the request, and surfaces exactly what it
\* returned; otherwise it has not been invoked
C5_HandlerDecides ==
    Resolved.err_handler # None =>
        IF pc = "done" /\ ~result.ok
        THEN /\ handler_calls = <<[handler |-> Resolved.err_handler,
                                   err |-> result.err, req |-> req]>>
             /\ outcome = Err(ApplyHandler(Resolved.err_handler, result.err, req))
        ELSE handler_calls = <<>>

\* C5 witness: a decode failure surfaced through the handler
C5_Witness ==
    /\ Failed("Deserialize")
    /\ Resolved.err_handler = "bad_request_body"
    /\ Len(handler_calls) = 1
    /\ outcome.err.body # <<>>

\* C6: with no handler configured, a failed extraction surfaces a 4xx
\* response whose reason is the fixed text of its fault kind, a text no other
\* fault kind has
C6_DefaultMapping ==
    (Resolved.err_handler = None /\ pc = "done" /\ ~result.ok) =>
        /\ result.err.kind \in ErrorKinds
        /\ ~outcome.ok
        /\ outcome.err.status \in 400..499
        /\ outcome.err.reason = DisplayText(result.err.kind)
        /\ \A k \in ErrorKinds \ {result.err.kind} :
              DisplayText(k) # outcome.err.reason
        /\ outcome.err.cause = result.err
        /\ handler_calls = <<>>

\* C6 witness: a source fault mapped by default
C6_Witness ==
    /\ Failed("Payload")
    /\ Resolved.err_handler = None
    /\ outcome.err.reason = "Error that occur during reading payload"

\* C7 as stated: on serialize failure every entry point answers 500 with no
\* custom reason, and the extraction handler is not invoked
C7_Original ==
    (rpc = "sent" /\ ~to_vec(entry.value).ok) =>
        /\ resp.status = 500
        /\ resp.reason = None
        /\ handler_calls = <<>>

\* C7: on serialize failure every entry point answers 500 with an empty body
\* and no content type; respond_to sets no reason, cbor and cbor2 set the
\* fixed reason "unable to serialize cbor."; the extraction handler is not
\* invoked
C7_SerializeFailure ==
    (rpc = "sent" /\ entry.value = "nan") =>
        /\ resp.status = 500
        /\ resp.body = <<>>
        /\ resp.content_type = None
        /\ resp.reason = IF entry.name = "respond_to"
                         THEN None ELSE "unable to serialize cbor."
        /\ handler_calls = <<>>

\* C7 witness: cbor on a value that does not serialize, on a route that has
\* an error handler
C7_Witness ==
    /\ rpc = "sent"
    /\ entry.name = "cbor"
    /\ entry.value = "nan"
    /\ Resolved.err_handler # None
    /\ resp.status = 500

\* C8 as stated: on success every entry point answers 200, whatever status
\* the builder was created with
C8_Original ==
    (rpc = "sent" /\ to_vec(entry.value).ok) =>
        /\ resp.status = 200
        /\ resp.content_type = "application/cbor"
        /\ resp.body = to_vec(entry.value).val

\* the encodings of the model's values, as byte sequences
Encoding(v) == IF v = "v1" THEN <<0, 1>> ELSE <<1, 1, 0>>

\* C8: on success the content type is application/cbor (replacing the
\* builder's), the body is the value's encoding, and the status is 200 for
\* respond_to and the builder's own status for cbor and cbor2
C8_SerializeSuccess ==
    (rpc = "sent" /\ entry.value \in Values) =>
        /\ resp.content_type = "application/cbor"
        /\ resp.body = FromSeq(Encoding(entry.value))
        /\ resp.reason = None
        /\ resp.status = IF entry.name = "respond_to"
                         THEN 200 ELSE entry.builder.status

\* C8 witness: cbor2 on a builder created with status 400 and a content type
C8_Witness ==
    /\ rpc = "sent"
    /\ entry.name = "cbor2"
    /\ entry.value = "v2"
    /\ entry.builder.status = 400
    /\ entry.builder.content_type = "text/plain"
    /\ resp.status = 400

\* C9: from_request is possible for every request and route; the body is
\* built with the attached config's limit (256KiB when nothing is attached)
\* and that limit is the one enforced; the closure holds the attached
\* handler (none when nothing is attached); and a config that sets no
\* predicate, attached or not, accepts exactly application/cbor
C9_FieldByFieldFallback ==
    /\ pc = "request" => ENABLED FromRequest
    /\ Started =>
        /\ body.limit = Limit
        /\ app_data.kind = "none" =>
              /\ body.limit = 262144
              /\ map_fn.err_handler = None
        /\ app_data.kind # "none" =>
              map_fn.err_handler = app_data.cfg.err_handler
        /\ (app_data.kind = "none" \/ app_data.cfg.content_type = None) =>
              (body.err = NoErr <=> req.content_type = "application/cbor")
        /\ pc = "waiting" => Received <= Limit
        /\ map_fn.err_handler = None => handler_calls = <<>>

\* C9 witness: a config in the shared-data wrapper that overrides only the
\* limit rejects a canonical-type body of three bytes
C9_Witness ==
    /\ app_data = [kind |-> "Data", cfg |-> CborConfig_limit(DEFAULT_CONFIG, 2)]
    /\ req.content_type = CBOR_MIME
    /\ Failed("Overflow")
    /\ Received = 3
    /\ outcome.err.reason = "Cbor payload size is bigger than allowed"

\* C10: the gate passes exactly when a media type is declared and the
\* resolved predicate (the configured one, else exact match on
\* application/cbor) holds of it; a request the gate rejects fails with
\* ContentType and no other request does
C10_GateIffPredicate ==
    Started =>
        /\ (body.err = NoErr) <=> GateAccepts
        /\ (body.err = ContentType) <=> ~GateAccepts
        /\ pc = "done" => (result = Err(ContentType) <=> ~GateAccepts)

\* C10 witness: text/plain passes a configured predicate and the body decodes
C10_Witness ==
    /\ pc = "done"
    /\ result.ok
    /\ req.content_type = "text/plain"
    /\ Resolved.content_type = "is_text_plain"

\* C11, the state part: a fault the source reported has failed the
\* extraction with Payload carrying that very fault, which is what the
\* handler was given or what the default error was made from; and an
\* extraction has an outcome exactly when it is done
C11_State ==
    /\ stream_end \in Faults =>
          /\ Failed("Payload")
          /\ result.err.fault = stream_end
          /\ IF Resolved.err_handler = None
             THEN outcome.err.cause = [kind |-> "Payload", fault |-> stream_end]
             ELSE /\ Len(handler_calls) = 1
                  /\ handler_calls[1].err =
                        [kind |-> "Payload", fault |-> stream_end]
    /\ (pc = "done") <=> (outcome # NoOutcome)
    /\ (pc = "done") <=> (result # NoResult)

\* C11, the step part: once the extraction has failed, no step requests or
\* receives a chunk, decodes, invokes the handler again, or changes the
\* result or the outcome
C11_Step ==
    (pc = "done" /\ ~result.ok) =>
        /\ pc' = "done"
        /\ result' = result
        /\ outcome' = outcome
        /\ requested' = requested
        /\ delivered' = delivered
        /\ decode_in' = decode_in
        /\ handler_calls' = handler_calls
        /\ stream_end' = stream_end

\* C11: every fault is terminal: a source fault fails the extraction with
\* Payload carrying it, and after any failure nothing more is requested,
\* nothing is retried and the single outcome never changes
C11_FaultsAreTerminal == []C11_State /\ [][C11_Step]_vars

\* C11 witness: the source failed after delivering a chunk, and the handler
\* was given that fault
C11_Witness ==
    /\ Failed("Payload")
    /\ stream_end = "EncodingCorrupted"
    /\ Len(delivered) >= 1
    /\ Len(handler_calls) = 1
    /\ handler_calls[1].err.fault = "EncodingCorrupted"
    /\ requested = Len(delivered) + 1

\* the chunks of cs joined in order, from the last chunk backwards
RECURSIVE ConcatAll(_)
ConcatAll(cs) ==
    IF cs = <<>> THEN <<>> ELSE BCat(cs[1], ConcatAll(Tail(cs)))

\* the values whose encoding is the byte string b
DecodesTo(b) == {v \in Values : FromSeq(Encoding(v)) = b}

\* C12: the decoder is handed a buffer exactly when the source has ended
\* without fault, and only then; that buffer is the delivered chunks joined
\* in arrival order, it is within the limit and the request passed the gate;
\* the extraction is then done with the decoded value, or with Deserialize
\* when the bytes are no value's encoding
C12_DecodeAfterEndOfStream ==
    /\ (decode_in # <<>>) <=> (stream_end = "eof")
    /\ stream_end = "eof" =>
          /\ pc = "done"
          /\ GateAccepts
          /\ Received <= Limit
          /\ decode_in = <<ConcatAll(delivered)>>
          /\ BLen(decode_in[1]) = Received
          /\ requested = Len(delivered) + 1
          /\ IF DecodesTo(ConcatAll(delivered)) # {}
             THEN \E v \in DecodesTo(ConcatAll(delivered)) :
                     /\ result = Ok(v)
                     /\ outcome = Ok(v)
                     /\ handler_calls = <<>>
             ELSE /\ Failed("Deserialize")
                  /\ ~outcome.ok

\* C12 witness: three one-byte chunks 1, 1, 0 decode to the value whose
\* encoding is 1 1 0
C12_Witness ==
    /\ stream_end = "eof"
    /\ delivered = <<Run(1, 1), Run(1, 1), Run(0, 1)>>
    /\ outcome = Ok("v2")

DeclaredOver == HasDeclared /\ Declared > Limit

\* C13: a finished extraction failed at the first stage that could fail it:
\* ContentType whenever the gate rejects, whatever the declared length;
\* otherwise Overflow whenever the declared length or the bytes received
\* are over the limit, with nothing decoded; Payload and Deserialize only
\* when the gate passed and both lengths were within the limit
C13_StageOrder ==
    pc = "done" =>
        /\ ~GateAccepts => result = Err(ContentType)
        /\ (GateAccepts /\ DeclaredOver) =>
              (result = Err(Overflow) /\ delivered = <<>>)
        /\ Received > Limit =>
              (result = Err(Overflow) /\ decode_in = <<>>)
        /\ Failed("Overflow") =>
              (GateAccepts /\ (DeclaredOver \/ Received > Limit))
        /\ (Failed("Deserialize") \/ Failed("Payload") \/ result.ok) =>
              (GateAccepts /\ ~DeclaredOver /\ Received <= Limit)
        /\ Failed("Deserialize") => stream_end = "eof"

\* C13 witness: a rejected media type together with a declared length over
\* the limit fails with ContentType
C13_Witness ==
    /\ Failed("ContentType")
    /\ req.content_type = "text/html"
    /\ DeclaredOver
    /\ outcome.err.reason = "Content type error"

\* C14: Overflow occurs only when the declared length or the bytes received
\* are strictly greater than the limit; a request that passes the gate with
\* a declared length equal to the limit has its first chunk requested; and
\* an extraction that received exactly the limit and is done did not
\* overflow
C14_StrictChecks ==
    /\ Failed("Overflow") => (Declared > Limit \/ Received > Limit)
    /\ (GateAccepts /\ HasDeclared /\ Declared = Limit
          /\ pc \in {"waiting", "done", "cancelled"}) => requested >= 1
    /\ (pc = "done" /\ Received = Limit) => ~Failed("Overflow")
    /\ (pc = "done" /\ Received = Limit /\ stream_end = "eof") =>
          BLen(decode_in[1]) = Limit

\* C14 witness: declared length and body both exactly the limit, read to
\* end-of-stream and decoded
C14_Witness ==
    /\ stream_end = "eof"
    /\ HasDeclared /\ Declared = Limit
    /\ Received = Limit
    /\ Len(delivered) = 2
    /\ result.ok

\* C15, the state part: a cancelled extraction has no result, no outcome, no
\* handler invocation and nothing decoded; its buffer and running total are
\* gone with the source; and only the one request made before the
\* cancellation is unanswered
C15_State ==
    pc = "cancelled" =>
        /\ result = NoResult
        /\ outcome = NoOutcome
        /\ handler_calls = <<>>
        /\ decode_in = <<>>
        /\ stream_end = None
        /\ body.buf = <<>>
        /\ body.bytes_read = 0
        /\ body.stream = "dropped"
        /\ requested = Len(delivered) + 1

\* C15, the step part: the cancelling step requests and delivers nothing,
\* and after it no step changes anything of the extraction
C15_Step ==
    /\ (pc = "waiting" /\ pc' = "cancelled") =>
          (requested' = requested /\ delivered' = delivered)
    /\ pc = "cancelled" => UNCHANGED extract_vars

\* C15: an extraction dropped while it waits for a chunk produces nothing:
\* no value, no error, no handler invocation, no part of the buffer, and no
\* further request for a chunk, then or later
C15_CancelLeavesNothing == []C15_State /\ [][C15_Step]_vars

\* C15 witness: cancelled with two chunks already accumulated, on a route
\* that has an error handler
C15_Witness ==
    /\ pc = "cancelled"
    /\ Len(delivered) = 2
    /\ Received >= 3
    /\ Resolved.err_handler # None
    /\ body.buf = <<>>

\* the first extraction as a record
Self ==
    [req |-> req, pc |-> pc, body |-> body, map_fn |-> map_fn,
     delivered |-> delivered, requested |-> requested,
     decode_in |-> decode_in, result |-> result, outcome |-> outcome,
     handler_calls |-> handler_calls, stream_end |-> stream_end]

\* What an extraction run alone ends with, from the route, the request, the
\* chunks its source delivered and the way the source ended: the stages in
\* order, then the handler or the default mapping.
AloneResult(data, r, cs, end) ==
    LET lim == IF data.kind = "none" THEN 262144 ELSE data.cfg.limit
        pred == IF data.kind = "none" THEN None ELSE data.cfg.content_type
        gate == /\ r.content_type # None
                /\ IF pred = None THEN r.content_type = "application/cbor"
                   ELSE ApplyPredicate(pred, r.content_type)
    IN  IF ~gate THEN Err(ContentType)
        ELSE IF r.content_length # NoLength /\ r.content_length > lim
        THEN Err(Overflow)
        ELSE IF TotalLen(cs) > lim THEN Err(Overflow)
        ELSE IF end \in Faults THEN Err([kind |-> "Payload", fault |-> end])
        ELSE IF DecodesTo(ConcatAll(cs)) # {}
        THEN Ok(CHOOSE v \in DecodesTo(ConcatAll(cs)) : TRUE)
        ELSE Err([kind |-> "Deserialize", fault |-> "cbor"])

AloneOutcome(data, r, cs, end) ==
    LET res == AloneResult(data, r, cs, end)
        h == IF data.kind = "none" THEN None ELSE data.cfg.err_handler
    IN  IF res.ok THEN [out |-> Ok(res.val), calls |-> <<>>]
        ELSE IF h = None
        THEN [out |-> Err(IntoError(res.err)), calls |-> <<>>]
        ELSE [out |-> Err(ApplyHandler(h, res.err, r)),
              calls |-> <<[handler |-> h, err |-> res.err, req |-> r]>>]

\* a finished extraction ended as it would have ended alone
AsAlone(t) ==
    t.pc = "done" =>
        /\ t.result = AloneResult(app_data, t.req, t.delivered, t.stream_end)
        /\ t.outcome =
              AloneOutcome(app_data, t.req, t.delivered, t.stream_end).out
        /\ t.handler_calls =
              AloneOutcome(app_data, t.req, t.delivered, t.stream_end).calls

\* an extraction's own bookkeeping is consistent with what its own source
\* delivered, whatever the other extraction did
OwnBuffer(t) ==
    t.pc = "waiting" =>
        /\ t.body.buf = ConcatAll(t.delivered)
        /\ t.body.bytes_read = TotalLen(t.delivered)
        /\ t.body.limit = app_data.cfg.limit

\* C16, the state part
C16_State ==
    /\ AsAlone(Self) /\ AsAlone(peer)
    /\ OwnBuffer(Self) /\ OwnBuffer(peer)

\* C16, the step part: no step changes the shared config, and no step
\* changes anything of both extractions
C16_Step ==
    /\ app_data' = app_data
    /\ (Self' # Self) => (peer' = peer)
    /\ (peer' # peer) => (Self' = Self)

\* C16: two extractions on one route do not interfere: under every
\* interleaving each one's buffer and running total hold exactly what its own
\* source delivered, no step changes the shared config or both extractions,
\* and each ends with the result, outcome and handler invocation it would
\* have had alone
C16_NoInterference == []C16_State /\ [][C16_Step]_vars

\* C16 witness: both extractions are done after two chunks each, one with a
\* value and no handler call, the other with Overflow given to the handler
C16_Witness ==
    /\ pc = "done" /\ peer.pc = "done"
    /\ result = Ok("v1")
    /\ peer.result = Err(Overflow)
    /\ Len(delivered) = 2 /\ Len(peer.delivered) = 2
    /\ Resolved.err_handler # None
    /\ Len(peer.handler_calls) = 1 /\ handler_calls = <<>>

\* the lone extraction of Spec ends as AloneResult and AloneOutcome say
AloneAgrees == AsAlone(Self)

====
